---- MODULE Spec2Model ----
(***************************************************************************)
(* GraphClient (src/src/graph-client.ts): an authenticated HTTP adapter    *)
(* for Microsoft Graph.  The model follows one or more graphRequest calls  *)
(* through their suspension points (the awaits of makeRequest and          *)
(* refreshAccessToken) and keeps the adapter's stored credential pair, the *)
(* environment's client secret and, per call, the local variables of       *)
(* makeRequest, the requests sent and the value graphRequest settles with. *)
(*                                                                         *)
(* JavaScript strings are TLA+ strings.  null and undefined are the one    *)
(* value Null; the empty string stays the empty string, so that the        *)
(* truthiness tests of the code (a || b, !a, if (a)) are modelled by       *)
(* Truthy and not by a comparison with Null.                               *)
(***************************************************************************)
EXTENDS Integers, Sequences, FiniteSets, TLC

\* null / undefined: a value no token, secret or text of the model equals
Null == "<null>"

\* JavaScript truthiness of a string | null | undefined
Truthy(v) == v # Null /\ v # ""

\* a || b on string | null | undefined operands
Or(a, b) == IF Truthy(a) THEN a ELSE b

(***************************************************************************)
(* Strings                                                                 *)
(***************************************************************************)

\* String.prototype.includes
Includes(s, t) ==
    \E i \in 1..(Len(s) - Len(t) + 1) : SubSeq(s, i, i + Len(t) - 1) = t

\* String.prototype.startsWith
StartsWith(s, t) == Len(s) >= Len(t) /\ SubSeq(s, 1, Len(t)) = t

\* the decimal text of a non-negative integer, as a template literal or
\* JSON.stringify writes a number
RECURSIVE DecimalString(_)
DecimalString(n) ==
    IF n < 10 THEN SubSeq("0123456789", n + 1, n + 1)
    ELSE DecimalString(n \div 10) \o SubSeq("0123456789", (n % 10) + 1, (n % 10) + 1)

\* JSON.stringify of a string: quoted, with the quote, the backslash and the
\* newline escaped.  The text is escaped half by half, character by character.
EscapeChar(ch) ==
    CASE ch = "\"" -> "\\\""
      [] ch = "\\" -> "\\\\"
      [] ch = "\n" -> "\\n"
      [] OTHER -> ch

RECURSIVE Escape(_)
Escape(s) ==
    IF Len(s) = 0 THEN ""
    ELSE IF Len(s) = 1 THEN EscapeChar(s)
    ELSE Escape(SubSeq(s, 1, Len(s) \div 2))
         \o Escape(SubSeq(s, (Len(s) \div 2) + 1, Len(s)))

Quote(s) == "\"" \o Escape(s) \o "\""

(***************************************************************************)
(* JSON values.  A value is a record whose field t is its JavaScript kind  *)
(* and whose other field is the payload.  An object is the sequence of its *)
(* <<key, value>> members in insertion order (the order Object.keys and    *)
(* JSON.stringify follow), an array the sequence of its elements.          *)
(***************************************************************************)
JUndefined == [t |-> "undefined"]
JNull == [t |-> "null"]
JBool(b) == [t |-> "boolean", bool |-> b]
JNum(n) == [t |-> "number", num |-> n]
JStr(s) == [t |-> "string", str |-> s]
JArr(items) == [t |-> "array", items |-> items]
JObj(members) == [t |-> "object", members |-> members]

\* typeof x === 'object' (true of null and of arrays)
TypeofObject(x) == x.t \in {"object", "array", "null"}

\* JavaScript truthiness of a JSON value
JTruthy(x) ==
    ~ \/ x.t \in {"null", "undefined"}
      \/ x = JBool(FALSE)
      \/ x = JNum(0)
      \/ x = JStr("")

\* key in obj, for a plain object
HasKey(x, key) ==
    x.t = "object" /\ \E i \in 1..Len(x.members) : x.members[i][1] = key

\* obj[key]: undefined when the key is absent
Get(x, key) ==
    IF HasKey(x, key)
    THEN x.members[CHOOSE i \in 1..Len(x.members) : x.members[i][1] = key][2]
    ELSE JUndefined

\* {...obj, [key]: value}: an existing key keeps its place, a new one is last
SpreadWith(x, key, value) ==
    IF HasKey(x, key)
    THEN JObj([i \in 1..Len(x.members) |->
                 IF x.members[i][1] = key THEN <<key, value>> ELSE x.members[i]])
    ELSE JObj(Append(x.members, <<key, value>>))

\* JSON.stringify(value): the compact serialization
RECURSIVE Stringify(_)
RECURSIVE StringifyItems(_, _)
RECURSIVE StringifyMembers(_, _)
Stringify(x) ==
    CASE x.t = "null" -> "null"
      [] x.t = "boolean" -> (IF x.bool THEN "true" ELSE "false")
      [] x.t = "number" -> DecimalString(x.num)
      [] x.t = "string" -> Quote(x.str)
      [] x.t = "array" -> "[" \o StringifyItems(x.items, 1) \o "]"
      [] x.t = "object" -> "{" \o StringifyMembers(x.members, 1) \o "}"

StringifyItems(items, i) ==
    IF i > Len(items) THEN ""
    ELSE (IF i > 1 THEN "," ELSE "") \o Stringify(items[i])
         \o StringifyItems(items, i + 1)

StringifyMembers(members, i) ==
    IF i > Len(members) THEN ""
    ELSE (IF i > 1 THEN "," ELSE "") \o Quote(members[i][1]) \o ":"
         \o Stringify(members[i][2]) \o StringifyMembers(members, i + 1)

\* JSON.stringify(value, null, 2): one member or element per line, indented
\* by two spaces per nesting level; empty containers stay "[]" and "{}"
RECURSIVE StringifyPretty(_, _)
RECURSIVE PrettyItems(_, _, _)
RECURSIVE PrettyMembers(_, _, _)
StringifyPretty(x, indent) ==
    CASE x.t = "array" /\ x.items # <<>> ->
           "[\n" \o PrettyItems(x.items, 1, indent \o "  ") \o "\n" \o indent \o "]"
      [] x.t = "object" /\ x.members # <<>> ->
           "{\n" \o PrettyMembers(x.members, 1, indent \o "  ") \o "\n" \o indent \o "}"
      [] OTHER -> Stringify(x)

PrettyItems(items, i, indent) ==
    IF i > Len(items) THEN ""
    ELSE (IF i > 1 THEN ",\n" ELSE "") \o indent
         \o StringifyPretty(items[i], indent) \o PrettyItems(items, i + 1, indent)

PrettyMembers(members, i, indent) ==
    IF i > Len(members) THEN ""
    ELSE (IF i > 1 THEN ",\n" ELSE "") \o indent \o Quote(members[i][1]) \o ": "
         \o StringifyPretty(members[i][2], indent)
         \o PrettyMembers(members, i + 1, indent)

(***************************************************************************)
(* formatJsonResponse (lines 177-260)                                      *)
(***************************************************************************)

\* removeODataProps without its recursion: only the keys of the value itself
\* are deleted
removeODataPropsShallow(obj) ==
    IF obj.t = "object"
    THEN LET Keep(m) == ~StartsWith(m[1], "@odata.")
         IN  JObj(SelectSeq(obj.members, Keep))
    ELSE obj

\* removeODataProps: deletes every key starting with "@odata." and descends
\* into every remaining value whose typeof is 'object'.  Object.keys of an
\* array are its indices, so an array keeps all its elements.
RECURSIVE removeODataProps(_)
removeODataProps(obj) ==
    CASE obj.t = "object" ->
           LET Keep(m) == ~StartsWith(m[1], "@odata.")
               kept == SelectSeq(obj.members, Keep)
           IN  JObj([i \in 1..Len(kept) |->
                       IF TypeofObject(kept[i][2])
                       THEN <<kept[i][1], removeODataProps(kept[i][2])>>
                       ELSE kept[i]])
      [] obj.t = "array" ->
           JArr([i \in 1..Len(obj.items) |->
                   IF TypeofObject(obj.items[i]) THEN removeODataProps(obj.items[i])
                   ELSE obj.items[i]])
      [] OTHER -> obj

\* one ContentItem
TextItem(text) == [type |-> "text", text |-> text]

\* JSON.stringify(x) where x may be undefined: undefined is not serialized
StringifyTop(x) == IF x = JUndefined THEN Null ELSE Stringify(x)

\* formatJsonResponse without its rawResponse branches (lines 194-199 and
\* 229-234): every value is stripped and indented
formatJsonResponseNeverRaw(data, rawResponse) ==
    LET payload == IF HasKey(data, "_headers") THEN Get(data, "data") ELSE data
    IN  IF payload \in {JNull, JUndefined}
        THEN [content |-> <<TextItem(Stringify(JObj(<< <<"success", JBool(TRUE)>> >>)))>>]
        ELSE [content |-> <<TextItem(StringifyPretty(removeODataProps(payload), ""))>>]

\* formatJsonResponse serializing without indentation whatever is asked
formatJsonResponseCompact(data, rawResponse) ==
    [content |-> <<TextItem(StringifyTop(data))>>]

\* formatJsonResponse (lines 177-260)
formatJsonResponse(data, rawResponse) ==
    IF HasKey(data, "_headers")
    THEN LET responseData == Get(data, "data")
             etag == Get(data, "_etag")
             hdrs == Get(data, "_headers")
             meta == JObj((IF JTruthy(etag) THEN << <<"etag", etag>> >> ELSE <<>>)
                          \o (IF JTruthy(hdrs) THEN << <<"headers", hdrs>> >> ELSE <<>>))
         IN  IF rawResponse
             THEN [content |-> <<TextItem(StringifyTop(responseData))>>, _meta |-> meta]
             ELSE IF responseData \in {JNull, JUndefined}
             THEN [content |-> <<TextItem(Stringify(JObj(<< <<"success", JBool(TRUE)>> >>)))>>,
                   _meta |-> meta]
             ELSE [content |-> <<TextItem(StringifyPretty(removeODataProps(responseData), ""))>>,
                   _meta |-> meta]
    ELSE IF rawResponse
    THEN [content |-> <<TextItem(StringifyTop(data))>>]
    ELSE IF data \in {JNull, JUndefined}
    THEN [content |-> <<TextItem(Stringify(JObj(<< <<"success", JBool(TRUE)>> >>)))>>]
    ELSE [content |-> <<TextItem(StringifyPretty(removeODataProps(data), ""))>>]

\* the object data refers to once formatJsonResponse has returned:
\* removeODataProps deletes keys of the object it is handed (lines 222, 253),
\* the raw branches and the null branches leave it alone
DataAfterFormat(data, rawResponse) ==
    IF rawResponse THEN data
    ELSE IF HasKey(data, "_headers")
    THEN IF Get(data, "data") \in {JNull, JUndefined} THEN data
         ELSE JObj([i \in 1..Len(data.members) |->
                      IF data.members[i][1] = "data"
                      THEN <<"data", removeODataProps(data.members[i][2])>>
                      ELSE data.members[i]])
    ELSE IF data \in {JNull, JUndefined} THEN data
    ELSE removeODataProps(data)


(***************************************************************************)
(* Inputs: the values the collaborators and the caller can hand in         *)
(***************************************************************************)

\* the nesting of objects and arrays in the response bodies of the model
MaxDepth == 2

\* scalars, and the objects without nesting: empty, only '@odata.*' keys,
\* and '@odata.*' keys next to another key
FlatValues ==
    { JNum(1), JStr("x"), JNull,
      JObj(<<>>),
      JObj(<< <<"@odata.type", JStr("#user")>>, <<"@odata.id", JStr("users/1")>> >>),
      JObj(<< <<"@odata.etag", JStr("W/\"2\"")>>, <<"name", JStr("x")>> >>) }

\* the arrays and objects that hold v
Nest(v) ==
    { JArr(<< v >>),
      JArr(<< JNum(1), v >>),
      JObj(<< <<"value", v>> >>),
      JObj(<< <<"@odata.context", JStr("ctx")>>, <<"value", v>> >>),
      JObj(<< <<"value", v>>, <<"@odata.nextLink", JStr("next")>> >>) }

\* the values nested at most d deep
RECURSIVE ValuesOfDepth(_)
ValuesOfDepth(d) ==
    IF d = 0 THEN FlatValues
    ELSE FlatValues \cup UNION { Nest(v) : v \in ValuesOfDepth(d - 1) }

\* bodies that carry the wrapper fields formatJsonResponse looks for
WrappedValues ==
    { JObj(<< <<"_headers", JObj(<< <<"etag", JStr("W/\"3\"")>> >>)>>, <<"data", v>> >>) :
          v \in ValuesOfDepth(MaxDepth - 1) }
    \cup { JObj(<< <<"_etag", JStr("W/\"3\"")>>, <<"_headers", JNull>>, <<"data", v>> >>) :
          v \in FlatValues }
    \cup { JObj(<< <<"_headers", JObj(<<>>)>> >>) }

\* the JSON values a response body of the model can carry
JsonValues ==
    { JObj(<< <<"@odata.context", JStr("ctx")>>, <<"id", JNum(1)>> >>),
      JArr(<< JNum(1) >>),
      JNull }
    \cup ValuesOfDepth(MaxDepth) \cup WrappedValues

\* JSON.stringify of every value of the model, the texts JSON.parse accepts,
\* and the value each of them is the serialization of
Serialized == [ x \in JsonValues |-> Stringify(x) ]
JsonTexts == { Serialized[x] : x \in JsonValues }
ParsedText == [ text \in JsonTexts |-> CHOOSE x \in JsonValues : Serialized[x] = text ]

\* JSON.parse on the texts of the model: the value whose serialization the
\* text is, or a SyntaxError
JSONParse(text) ==
    IF text \in JsonTexts
    THEN [ok |-> TRUE, value |-> ParsedText[text]]
    ELSE [ok |-> FALSE, value |-> JUndefined]

\* a Response of fetch: etag is headers.get('ETag'), Null when absent; body
\* is what text() resolves to, Null when reading the body fails
Resp(status, statusText, etag, body) ==
    [status |-> status, statusText |-> statusText, etag |-> etag, body |-> body]

Responses ==
    { Resp(200, "OK", "W/\"1\"", "{\"@odata.context\":\"ctx\",\"id\":1}"),
      Resp(200, "OK", Null, "[1]"),
      Resp(200, "OK", Null, "not json"),
      Resp(204, "No Content", Null, ""),
      Resp(200, "OK", Null, Null),
      Resp(401, "Unauthorized", Null, "token expired"),
      Resp(401, "Unauthorized", Null, Null),
      Resp(403, "Forbidden", Null, "Insufficient privileges: scope"),
      Resp(403, "Forbidden", Null, "no permission"),
      Resp(403, "Forbidden", Null, "denied"),
      Resp(404, "Not Found", Null, ""),
      Resp(500, "Internal Server Error", Null, "scope \"x\" failed") }

\* how an awaited promise settles
Return(value) == [kind |-> "return", value |-> value]
Throw(message) == [kind |-> "throw", message |-> message]
Pending == [kind |-> "pending"]

\* fetch: a response, or a transport failure
FetchOutcomes == {Return(r) : r \in Responses} \cup {Throw("fetch failed")}

\* authManager.getToken: a token, nothing, or a failure
GetTokenOutcomes == {Return("manager-access"), Return(Null), Throw("No valid token found")}

\* the token endpoint exchange: an access token with or without a new refresh
\* token, or a failure
RefreshOutcomes ==
    { Return([access_token |-> "new-access", refresh_token |-> Null]),
      Return([access_token |-> "new-access", refresh_token |-> "new-refresh"]),
      Throw("Failed to refresh token: 400 Bad Request") }

\* method, body and headers of a call: a plain GET, and a conditional PATCH
RequestShapes ==
    { [method |-> Null, body |-> Null, headers |-> <<>>],
      [method |-> "PATCH", body |-> "{\"displayName\":\"x\"}",
       headers |-> << <<"If-Match", "W/\"1\"">> >>] }

\* GraphRequestOptions as the caller passes them
Options ==
    { [ accessToken |-> a, refreshToken |-> r, rawResponse |-> raw,
        includeHeaders |-> inc, method |-> shape.method, body |-> shape.body,
        headers |-> shape.headers ] :
        a \in {Null, "", "option-access"}, r \in {Null, "option-refresh"},
        raw \in BOOLEAN, inc \in BOOLEAN, shape \in RequestShapes }

Endpoints == {"/me"}

(***************************************************************************)
(* makeRequest, performRequest, graphRequest: the synchronous parts        *)
(***************************************************************************)

\* performRequest (lines 140-158): the request handed to fetch.  The
\* caller's headers are spread last and win on colliding keys.
RECURSIVE SpreadAll(_, _, _)
SpreadAll(base, extra, i) ==
    IF i > Len(extra) THEN base
    ELSE SpreadAll(SpreadWith(base, extra[i][1], extra[i][2]), extra, i + 1)

performRequest(endpoint, token, options) ==
    [ url |-> "https://graph.microsoft.com/v1.0" \o endpoint,
      method |-> Or(options.method, "GET"),
      headers |-> SpreadAll(JObj(<< <<"Authorization", "Bearer " \o token>>,
                                    <<"Content-Type", "application/json">> >>),
                            options.headers, 1).members,
      body |-> options.body ]

\* response.ok
Ok(response) == response.status \in 200..299

\* line 59 retrying on every failed response
ShouldRefreshAnyError(response, token) == ~Ok(response) /\ Truthy(token)

\* line 59 without its test of the refresh token
ShouldRefreshWithoutToken(response, token) == response.status = 401

\* line 59 taking a 403 for an expired token as well
ShouldRefreshOn403(response, token) == response.status \in {401, 403} /\ Truthy(token)

\* line 59: the one condition under which a refresh is attempted
ShouldRefresh(response, token) == response.status = 401 /\ Truthy(token)

ApiErrorMessage(response, errorText) ==
    "Microsoft Graph API error: " \o DecimalString(response.status) \o " "
    \o response.statusText \o " - " \o errorText

ScopeErrorMessage(response, errorText) ==
    "Microsoft Graph API scope error: " \o DecimalString(response.status) \o " "
    \o response.statusText \o " - " \o errorText
    \o ". This tool requires organization mode. Please restart with --org-mode flag."

\* lines 73-89 looking for 'scope' alone
ErrorForScopeOnly(response) ==
    IF response.status = 403
    THEN IF Includes(response.body, "scope")
         THEN ScopeErrorMessage(response, response.body)
         ELSE ApiErrorMessage(response, response.body)
    ELSE IF ~Ok(response)
    THEN ApiErrorMessage(response, response.body)
    ELSE Null

\* lines 73-89: the error a final response raises, Null when it raises none
ErrorFor(response) ==
    IF response.status = 403
    THEN IF Includes(response.body, "scope") \/ Includes(response.body, "permission")
         THEN ScopeErrorMessage(response, response.body)
         ELSE ApiErrorMessage(response, response.body)
    ELSE IF ~Ok(response)
    THEN ApiErrorMessage(response, response.body)
    ELSE Null

\* lines 91-102 without the test of line 94: the empty text goes to JSON.parse
NormalizeBodyUntested(text) ==
    IF JSONParse(text).ok THEN JSONParse(text).value
    ELSE JObj(<< <<"message", JStr("OK!")>>, <<"rawResponse", JStr(text)>> >>)

\* lines 91-102: the value of the response text
NormalizeBody(text) ==
    IF text = "" THEN JObj(<< <<"message", JStr("OK!")>> >>)
    ELSE IF JSONParse(text).ok THEN JSONParse(text).value
    ELSE JObj(<< <<"message", JStr("OK!")>>, <<"rawResponse", JStr(text)>> >>)

\* lines 104-117 without the test of line 104: the ETag joins every
\* plain-object result
WithETagUnasked(result, response, options) ==
    IF result.t = "object"
    THEN SpreadWith(result, "_etag", JStr(Or(response.etag, "no-etag-found")))
    ELSE result

\* lines 104-117: the ETag of the response joins a plain-object result
WithETag(result, response, options) ==
    IF options.includeHeaders /\ result.t = "object"
    THEN SpreadWith(result, "_etag", JStr(Or(response.etag, "no-etag-found")))
    ELSE result

\* lines 73-117: what makeRequest settles with once the final response is in.
\* Every branch reads the body with response.text(), which rejects when the
\* body cannot be read.
FinalResponse(response, options) ==
    IF response.body = Null THEN Throw("terminated")
    ELSE IF ErrorFor(response) # Null THEN Throw(ErrorFor(response))
    ELSE Return(WithETag(NormalizeBody(response.body), response, options))

\* graphRequest without its catch: an error of makeRequest escapes
graphRequestSettleUncaught(outcome, options) ==
    IF outcome.kind = "return"
    THEN Return(formatJsonResponse(outcome.value, options.rawResponse))
    ELSE outcome

\* graphRequest (lines 160-175): a value of makeRequest is formatted, an
\* error is caught and becomes the error envelope
graphRequestSettle(outcome, options) ==
    IF outcome.kind = "return"
    THEN Return(formatJsonResponse(outcome.value, options.rawResponse))
    ELSE Return([content |-> <<TextItem(Stringify(JObj(<< <<"error", JStr(outcome.message)>> >>)))>>,
                 isError |-> TRUE])

(***************************************************************************)
(* State                                                                   *)
(***************************************************************************)

\* the number of graphRequest calls that can be in flight on one adapter
NumCalls == 2
Calls == 1..NumCalls

VARIABLES
    accessToken,    \* this.accessToken (line 34)
    refreshToken,   \* this.refreshToken (line 35)
    clientSecret,   \* process.env.MS365_MCP_CLIENT_SECRET
    call            \* per call: the frame of graphRequest / makeRequest

vars == <<accessToken, refreshToken, clientSecret, call>>

\* one step of a call, in the order the call takes them
Ev(ev, status, token) == [ev |-> ev, status |-> status, token |-> token]

\* a call that has not started.  pc is the await the call is suspended at;
\* accessToken and refreshToken are the locals of makeRequest (lines 48-50);
\* trace, requests and responses record what the call did, sent and received;
\* outcome is how makeRequest settled (the result of line 165 or the error
\* of line 168), settled how the promise of graphRequest settled; exchange is
\* what the token endpoint returned (line 133), data the object makeRequest
\* returned as formatJsonResponse left it.
NoExchange == [access_token |-> Null, refresh_token |-> Null]

IdleCall ==
    [ pc |-> "idle", endpoint |-> Null, options |-> CHOOSE o \in Options : TRUE,
      accessToken |-> Null, refreshToken |-> Null,
      trace |-> <<>>, requests |-> <<>>, responses |-> <<>>,
      exchange |-> NoExchange,
      outcome |-> Pending, settled |-> Pending, data |-> JUndefined ]

Init ==
    /\ accessToken = Null
    /\ refreshToken = Null
    /\ clientSecret \in {Null, "secret"}
    /\ call = [c \in Calls |-> IdleCall]

\* lines 48-49 with the stored token ahead of the override
ResolveAccessTokenStoredFirst(options) == Or(accessToken, options.accessToken)

\* lines 48-49 before the await: the override, else the stored token
ResolveAccessToken(options) == Or(options.accessToken, accessToken)

\* line 50: the override, else the stored refresh token
ResolveRefreshToken(options) == Or(options.refreshToken, refreshToken)

\* graphRequest is over: makeRequest settled with outcome
Settle(k, outcome) ==
    [k EXCEPT !.pc = "done", !.outcome = outcome,
              !.settled = graphRequestSettle(outcome, k.options),
              !.data = IF outcome.kind = "return"
                       THEN DataAfterFormat(outcome.value, k.options.rawResponse)
                       ELSE JUndefined]

\* lines 50-57 without the test of line 52
SendFirstUnchecked(k, token) ==
    [k EXCEPT !.accessToken = token,
              !.refreshToken = ResolveRefreshToken(k.options),
              !.pc = "fetch1",
              !.requests = Append(@, performRequest(k.endpoint, token, k.options)),
              !.trace = Append(@, Ev("fetch", 0, token))]

\* lines 50-57, entered with the access token the call resolved: the refresh
\* token is resolved, a missing access token is fatal, the first request goes out
SendFirst(k, token) ==
    LET k1 == [k EXCEPT !.accessToken = token,
                        !.refreshToken = ResolveRefreshToken(k.options)]
    IN  IF ~Truthy(token)
        THEN Settle(k1, Throw("No access token available"))
        ELSE [k1 EXCEPT !.pc = "fetch1",
                        !.requests = Append(@, performRequest(k.endpoint, token, k.options)),
                        !.trace = Append(@, Ev("fetch", 0, token))]

(***************************************************************************)
(* Operations                                                              *)
(***************************************************************************)

\* setOAuthTokens (lines 41-44)
setOAuthTokens(newAccessToken, newRefreshToken) ==
    /\ accessToken' = newAccessToken
    /\ refreshToken' = Or(newRefreshToken, Null)
    /\ UNCHANGED <<clientSecret, call>>

\* graphRequest -> makeRequest up to its first await (lines 160-166, 46-57):
\* with an override or a stored token the first request is sent at once,
\* otherwise the call waits for authManager.getToken()
graphRequest(c, endpoint, options) ==
    /\ call[c].pc \in {"idle", "done"}
    /\ LET k == [IdleCall EXCEPT !.endpoint = endpoint, !.options = options]
           tok == ResolveAccessToken(options)
       IN  call' = [call EXCEPT ![c] =
                IF Truthy(tok) THEN SendFirst(k, tok)
                ELSE [k EXCEPT !.pc = "getToken",
                               !.trace = Append(@, Ev("getToken", 0, Null))]]
    /\ UNCHANGED <<accessToken, refreshToken, clientSecret>>

\* line 49 keeping the token of authManager in this.accessToken
getTokenSettledCaching(c, outcome) ==
    /\ call[c].pc = "getToken"
    /\ call' = [call EXCEPT ![c] =
            IF outcome.kind = "throw"
            THEN Settle([call[c] EXCEPT !.trace = Append(@, Ev("getTokenFailed", 0, Null))],
                        outcome)
            ELSE SendFirst([call[c] EXCEPT !.trace = Append(@, Ev("gotToken", 0, outcome.value))],
                           outcome.value)]
    /\ accessToken' = IF outcome.kind = "return" THEN outcome.value ELSE accessToken
    /\ UNCHANGED <<refreshToken, clientSecret>>

\* authManager.getToken() settles (line 49, then lines 50-57)
getTokenSettled(c, outcome) ==
    /\ call[c].pc = "getToken"
    /\ call' = [call EXCEPT ![c] =
            IF outcome.kind = "throw"
            THEN Settle([call[c] EXCEPT !.trace = Append(@, Ev("getTokenFailed", 0, Null))],
                        outcome)
            ELSE SendFirst([call[c] EXCEPT !.trace = Append(@, Ev("gotToken", 0, outcome.value))],
                           outcome.value)]
    /\ UNCHANGED <<accessToken, refreshToken, clientSecret>>

\* refreshAccessToken without the test of line 129
refreshAccessTokenStartUnchecked(k) ==
    [k EXCEPT !.pc = "refreshing",
              !.trace = @ \o <<Ev("refreshAccessToken", 0, k.refreshToken),
                                Ev("TokenRefresher", 0, k.refreshToken)>>]

\* refreshAccessToken handing the stored refresh token to the exchange
\* instead of its argument
refreshAccessTokenStartStored(k) ==
    LET k1 == [k EXCEPT !.trace = Append(@, Ev("refreshAccessToken", 0, refreshToken))]
    IN  IF ~Truthy(clientSecret)
        THEN Settle(k1, Throw("MS365_MCP_CLIENT_SECRET not configured"))
        ELSE [k1 EXCEPT !.pc = "refreshing",
                        !.trace = Append(@, Ev("TokenRefresher", 0, refreshToken))]

\* refreshAccessToken up to its await (lines 124-133): without a client
\* secret it throws before the exchange is started
refreshAccessTokenStart(k) ==
    LET k1 == [k EXCEPT !.trace = Append(@, Ev("refreshAccessToken", 0, k.refreshToken))]
    IN  IF ~Truthy(clientSecret)
        THEN Settle(k1, Throw("MS365_MCP_CLIENT_SECRET not configured"))
        ELSE [k1 EXCEPT !.pc = "refreshing",
                        !.trace = Append(@, Ev("TokenRefresher", 0, k.refreshToken))]

\* a fetch settles (line 57 or line 70, then lines 59-61 or 73-117)
fetchSettled(c, outcome) ==
    /\ call[c].pc \in {"fetch1", "fetch2"}
    /\ LET k0 == call[c]
           failed == [k0 EXCEPT !.trace = Append(@, Ev("fetchFailed", 0, Null))]
           resp == outcome.value
           k == [k0 EXCEPT !.responses = Append(@, resp),
                           !.trace = Append(@, Ev("response", resp.status, Null))]
       IN  call' = [call EXCEPT ![c] =
                IF outcome.kind = "throw" THEN Settle(failed, outcome)
                ELSE IF k0.pc = "fetch1" /\ ShouldRefresh(resp, k0.refreshToken)
                THEN refreshAccessTokenStart(k)
                ELSE Settle(k, FinalResponse(resp, k0.options))]
    /\ UNCHANGED <<accessToken, refreshToken, clientSecret>>

\* lines 134-137 without the test of line 135: the refresh token of the
\* exchange is stored even when there is none
StoreRefreshedUntested(response) ==
    [ accessToken |-> response.access_token,
      refreshToken |-> response.refresh_token ]

\* the stored pair after an exchange that returned response (lines 134-137)
StoreRefreshed(response) ==
    [ accessToken |-> response.access_token,
      refreshToken |-> IF Truthy(response.refresh_token) THEN response.refresh_token
                       ELSE refreshToken ]

\* the exchange settles, and a failed exchange forgets the stored tokens
refreshSettledForgetting(c, outcome) ==
    /\ call[c].pc = "refreshing"
    /\ LET k == call[c]
           failed == [k EXCEPT !.trace = Append(@, Ev("refreshFailed", 0, Null))]
       IN  IF outcome.kind = "throw"
           THEN /\ call' = [call EXCEPT ![c] = Settle(failed, outcome)]
                /\ accessToken' = Null
                /\ refreshToken' = Null
           ELSE /\ accessToken' = StoreRefreshed(outcome.value).accessToken
                /\ refreshToken' = StoreRefreshed(outcome.value).refreshToken
                /\ call' = [call EXCEPT ![c] =
                        [k EXCEPT !.pc = "refreshed",
                                  !.exchange = outcome.value,
                                  !.trace = Append(@, Ev("refreshed", 0,
                                                         outcome.value.access_token))]]
    /\ UNCHANGED clientSecret

\* the token endpoint exchange settles (lines 133-137): a failure ends the
\* call, a success is stored and makeRequest is resumed later
refreshSettled(c, outcome) ==
    /\ call[c].pc = "refreshing"
    /\ LET k == call[c]
           failed == [k EXCEPT !.trace = Append(@, Ev("refreshFailed", 0, Null))]
       IN  IF outcome.kind = "throw"
           THEN /\ call' = [call EXCEPT ![c] = Settle(failed, outcome)]
                /\ UNCHANGED <<accessToken, refreshToken>>
           ELSE /\ accessToken' = StoreRefreshed(outcome.value).accessToken
                /\ refreshToken' = StoreRefreshed(outcome.value).refreshToken
                /\ call' = [call EXCEPT ![c] =
                        [k EXCEPT !.pc = "refreshed",
                                  !.exchange = outcome.value,
                                  !.trace = Append(@, Ev("refreshed", 0,
                                                         outcome.value.access_token))]]
    /\ UNCHANGED clientSecret

\* line 64 with the operands exchanged: the token of the first attempt wins
RetryTokenLocalFirst(k) == Or(k.accessToken, accessToken)

\* line 64: the token of the retry
RetryToken(k) == Or(accessToken, k.accessToken)

\* lines 63-70 without line 70: the 401 is classified, no request is re-issued
retryStale(c) ==
    /\ call[c].pc = "refreshed"
    /\ call' = [call EXCEPT ![c] =
            Settle(call[c], FinalResponse(call[c].responses[1], call[c].options))]
    /\ UNCHANGED <<accessToken, refreshToken, clientSecret>>

\* makeRequest resumes after the refresh (lines 63-70) and sends the retry
retry(c) ==
    /\ call[c].pc = "refreshed"
    /\ LET k == call[c]
           tok == RetryToken(k)
       IN  call' = [call EXCEPT ![c] =
                IF ~Truthy(tok)
                THEN Settle(k, Throw("Failed to refresh access token"))
                ELSE [k EXCEPT !.accessToken = tok,
                               !.pc = "fetch2",
                               !.requests = Append(@, performRequest(k.endpoint, tok, k.options)),
                               !.trace = Append(@, Ev("fetch", 0, tok))]]
    /\ UNCHANGED <<accessToken, refreshToken, clientSecret>>

(***************************************************************************)
(* Specification: one caller, whose calls follow one another, and a host   *)
(* that may install tokens at any time                                     *)
(***************************************************************************)
StoredAccessTokens == {"", "stored-access"}
StoredRefreshTokens == {Null, "stored-refresh"}

Sequential == {1}

Next ==
    \/ \E a \in StoredAccessTokens, r \in StoredRefreshTokens : setOAuthTokens(a, r)
    \/ \E c \in Sequential, e \in Endpoints, o \in Options : graphRequest(c, e, o)
    \/ \E c \in Sequential, out \in GetTokenOutcomes : getTokenSettled(c, out)
    \/ \E c \in Sequential, out \in FetchOutcomes : fetchSettled(c, out)
    \/ \E c \in Sequential, out \in RefreshOutcomes : refreshSettled(c, out)
    \/ \E c \in Sequential : retry(c)

Spec == Init /\ [][Next]_vars

(***************************************************************************)
(* Specification of the formatting path: calls that carry their own        *)
(* access token and are answered by a 2xx response whose body ranges over  *)
(* the empty text, the serializations of JsonValues and a text that is not *)
(* JSON                                                                    *)
(***************************************************************************)
FormatOptions ==
    { o \in Options : /\ o.accessToken = "option-access" /\ o.refreshToken = Null
                      /\ o.method = Null }

FormatResponses ==
    { Resp(200, "OK", etag, text) :
        etag \in {Null, "W/\"1\""}, text \in JsonTexts \cup {"", "not json"} }

NextFormat ==
    \/ \E e \in Endpoints, o \in FormatOptions : graphRequest(1, e, o)
    \/ \E r \in FormatResponses : fetchSettled(1, Return(r))

SpecFormat == Init /\ [][NextFormat]_vars

(***************************************************************************)
(* Specification of one call at a time: as Spec, but the host installs     *)
(* tokens only while no call is in flight, so that nothing but the call    *)
(* itself writes the stored tokens while it runs                           *)
(***************************************************************************)
InFlight(c) == call[c].pc \notin {"idle", "done"}

setOAuthTokensBetweenCalls(newAccessToken, newRefreshToken) ==
    /\ \A c \in Calls : ~InFlight(c)
    /\ setOAuthTokens(newAccessToken, newRefreshToken)

NextSolo ==
    \/ \E a \in StoredAccessTokens, r \in StoredRefreshTokens :
           setOAuthTokensBetweenCalls(a, r)
    \/ \E c \in Sequential, e \in Endpoints, o \in Options : graphRequest(c, e, o)
    \/ \E c \in Sequential, out \in GetTokenOutcomes : getTokenSettled(c, out)
    \/ \E c \in Sequential, out \in FetchOutcomes : fetchSettled(c, out)
    \/ \E c \in Sequential, out \in RefreshOutcomes : refreshSettled(c, out)
    \/ \E c \in Sequential : retry(c)

SpecSolo == Init /\ [][NextSolo]_vars

(***************************************************************************)
(* Specification of overlapping calls: the host has installed tokens, a    *)
(* client secret is configured, every call slot is in use, a call may      *)
(* start while others are suspended at an await, and the continuations run *)
(* in any order.  The calls are plain GETs on the stored tokens or with a  *)
(* refresh token of their own, the responses are a 401 and a 200, and      *)
(* every exchange returns an access token of its own and a new refresh     *)
(* token.                                                                  *)
(***************************************************************************)
OverlapOptions ==
    { o \in Options : /\ o.accessToken = Null /\ o.method = Null
                      /\ ~o.rawResponse /\ ~o.includeHeaders }

OverlapResponses ==
    { Resp(401, "Unauthorized", Null, "token expired"), Resp(200, "OK", Null, "[1]") }

\* what the exchange started by call c returns
OverlapRefreshOutcome(c) ==
    Return([access_token |-> "new-access-" \o DecimalString(c),
            refresh_token |-> "new-refresh"])

\* the adapter after setOAuthTokens("stored-access", "stored-refresh")
InitOverlap ==
    /\ accessToken = "stored-access"
    /\ refreshToken = "stored-refresh"
    /\ clientSecret = "secret"
    /\ call = [c \in Calls |-> IdleCall]

NextOverlap ==
    \/ \E c \in Calls, e \in Endpoints, o \in OverlapOptions : graphRequest(c, e, o)
    \/ \E c \in Calls, r \in OverlapResponses : fetchSettled(c, Return(r))
    \/ \E c \in Calls : refreshSettled(c, OverlapRefreshOutcome(c))
    \/ \E c \in Calls : retry(c)

SpecOverlap == InitOverlap /\ [][NextOverlap]_vars

(***************************************************************************)
(* Vocabulary of the properties                                            *)
(***************************************************************************)

\* the events of a trace with one of the given names, in order
Only(trace, names) == LET Named(e) == e.ev \in names IN SelectSeq(trace, Named)

\* how many events of a trace have one of the given names
Count(trace, names) == Len(Only(trace, names))

\* the names of the events of a trace, in order
EvNames(trace) == [i \in 1..Len(trace) |-> trace[i].ev]

Last(seq) == seq[Len(seq)]

\* an envelope with isError: true
IsErrorEnvelope(env) == "isError" \in DOMAIN env /\ env.isError = TRUE

\* the call is over and graphRequest returned this error message in an
\* error envelope
FailedWith(k, message) ==
    /\ k.pc = "done"
    /\ k.settled.kind = "return"
    /\ IsErrorEnvelope(k.settled.value)
    /\ k.settled.value.content = <<[type |-> "text", text |-> Stringify(JObj(<< <<"error", JStr(message)>> >>))]>>

\* the step stores nothing
StoredUnchanged == UNCHANGED <<accessToken, refreshToken>>

(***************************************************************************)
(* C1.  graphRequest always returns an envelope and never throws: however  *)
(* makeRequest settles, the call ends by returning an envelope whose       *)
(* content is exactly one item of type "text"; when makeRequest failed the *)
(* envelope has isError = true and its text is the JSON serialization of   *)
(* {error: <message>}, and only then.                                      *)
(***************************************************************************)
C1_AlwaysEnvelope ==
    \A c \in Calls :
        LET k == call[c] IN
        /\ k.pc = "done" <=> k.settled # Pending
        /\ k.pc = "done" =>
            /\ k.outcome.kind \in {"return", "throw"}
            /\ k.settled.kind = "return"
            /\ Len(k.settled.value.content) = 1
            /\ k.settled.value.content[1].type = "text"
            /\ DOMAIN k.settled.value.content[1] = {"type", "text"}
            /\ IF k.outcome.kind = "throw"
               THEN /\ IsErrorEnvelope(k.settled.value)
                    /\ k.settled.value.content[1].text
                         = "{\"error\":" \o Quote(k.outcome.message) \o "}"
                    /\ k.outcome.message = "No access token available"
                         => k.settled.value.content[1].text
                              = "{\"error\":\"No access token available\"}"
               ELSE ~IsErrorEnvelope(k.settled.value)

\* a call failed on a 403 whose body names a missing scope, and returned
C1_Witness ==
    \E c \in Calls :
        /\ call[c].pc = "done"
        /\ call[c].outcome.kind = "throw"
        /\ call[c].responses # <<>>
        /\ Last(call[c].responses).status = 403
        /\ IsErrorEnvelope(call[c].settled.value)

(***************************************************************************)
(* C2.  When the first response of a call is 401, a refresh token is       *)
(* available and the refresh succeeds, the call makes exactly one          *)
(* TokenRefresher invocation and exactly two HTTP calls, in the order HTTP *)
(* call, refresh, HTTP call; and when the retried request returns 2xx the  *)
(* result is built from the retried response, not from the 401.            *)
(***************************************************************************)
C2_RefreshThenRetry ==
    \A c \in Calls :
        LET k == call[c] IN
        ( /\ k.pc = "done"
          /\ k.responses # <<>>
          /\ k.responses[1].status = 401
          /\ Truthy(k.refreshToken)
          /\ Count(k.trace, {"refreshed"}) = 1 )
        => /\ EvNames(Only(k.trace, {"fetch", "TokenRefresher"}))
                = <<"fetch", "TokenRefresher", "fetch">>
           /\ Len(k.requests) = 2
           /\ (Len(k.responses) = 2 /\ Ok(k.responses[2]) /\ k.responses[2].body # Null)
              => /\ k.outcome.kind = "return"
                 /\ k.outcome.value
                      = WithETag(NormalizeBody(k.responses[2].body), k.responses[2], k.options)
                 /\ ~IsErrorEnvelope(k.settled.value)
                 /\ (k.responses[2].body = "" /\ ~k.options.rawResponse
                       /\ ~k.options.includeHeaders)
                    => k.settled.value.content[1].text = "{\n  \"message\": \"OK!\"\n}"

\* a call whose first response was 401 refreshed with a stored refresh
\* token, retried, and returned the 204 of the retry
C2_Witness ==
    \E c \in Calls :
        /\ call[c].pc = "done"
        /\ Len(call[c].responses) = 2
        /\ call[c].responses[1].status = 401
        /\ call[c].responses[2].status = 204
        /\ call[c].refreshToken = "stored-refresh"
        /\ Count(call[c].trace, {"refreshed"}) = 1
        /\ ~IsErrorEnvelope(call[c].settled.value)

(***************************************************************************)
(* C3.  At most one retry: a call issues at most two HTTP requests and at  *)
(* most one TokenRefresher invocation; a 401 on the retry is not refreshed *)
(* or retried again but ends the call with the generic API error; a first  *)
(* response other than 401, or a transport failure, is never followed by a *)
(* second request.                                                         *)
(***************************************************************************)
C3_AtMostOneRetry ==
    \A c \in Calls :
        LET k == call[c] IN
        /\ Len(k.requests) <= 2
        /\ Count(k.trace, {"fetch"}) = Len(k.requests)
        /\ Count(k.trace, {"TokenRefresher"}) <= 1
        /\ Count(k.trace, {"refreshAccessToken"}) <= 1
        /\ (Len(k.responses) = 2 /\ k.responses[2].status = 401)
           => /\ k.pc = "done"
              /\ Len(k.requests) = 2
              /\ Count(k.trace, {"TokenRefresher"}) = 1
              /\ k.responses[2].body # Null
                 => /\ k.outcome = Throw("Microsoft Graph API error: 401 "
                                         \o k.responses[2].statusText \o " - "
                                         \o k.responses[2].body)
                    /\ IsErrorEnvelope(k.settled.value)
        /\ (k.responses # <<>> /\ k.responses[1].status # 401)
           => Len(k.requests) = 1 /\ k.pc = "done"
        /\ Count(k.trace, {"fetchFailed"}) > 0
           => k.pc = "done" /\ Last(k.trace).ev = "fetchFailed"

\* a call that was answered 401 again on its retry
C3_Witness ==
    \E c \in Calls :
        /\ call[c].pc = "done"
        /\ Len(call[c].responses) = 2
        /\ call[c].responses[2].status = 401
        /\ call[c].responses[2].body # Null

(***************************************************************************)
(* C4.  A 401 with no refresh token available (neither override nor        *)
(* stored): TokenRefresher is not invoked, exactly one HTTP request is     *)
(* issued, and graphRequest returns an error envelope whose message is the *)
(* generic API error for status 401.                                       *)
(***************************************************************************)
C4_NoRefreshToken401 ==
    \A c \in Calls :
        LET k == call[c] IN
        ( /\ k.responses # <<>>
          /\ k.responses[1].status = 401
          /\ ~Truthy(k.refreshToken) )
        => /\ k.pc = "done"
           /\ Count(k.trace, {"TokenRefresher", "refreshAccessToken"}) = 0
           /\ Len(k.requests) = 1
           /\ IsErrorEnvelope(k.settled.value)
           /\ k.responses[1].body # Null
              => FailedWith(k, "Microsoft Graph API error: 401 " \o k.responses[1].statusText
                               \o " - " \o k.responses[1].body)
           /\ k.responses[1].body = "token expired"
              => k.settled.value.content[1].text
                   = "{\"error\":\"Microsoft Graph API error: 401 Unauthorized - token expired\"}"

\* a call without any refresh token was answered 401
C4_Witness ==
    \E c \in Calls :
        /\ call[c].pc = "done"
        /\ Len(call[c].responses) = 1
        /\ call[c].responses[1] = Resp(401, "Unauthorized", Null, "token expired")
        /\ call[c].refreshToken = Null
        /\ call[c].options.refreshToken = Null

(***************************************************************************)
(* C5.  As claimed: the stored credential pair is mutated only by a        *)
(* successful refresh, that is, every step that changes the stored access  *)
(* token or the stored refresh token is the completion of a successful     *)
(* TokenRefresher exchange.                                                *)
(***************************************************************************)
RefreshCompletes(c) == call[c].pc = "refreshing" /\ call'[c].pc = "refreshed"

C5_OnlyRefreshMutates ==
    [][~StoredUnchanged => \E c \in Calls : RefreshCompletes(c)]_vars

(***************************************************************************)
(* C5, amended.  The stored pair is mutated only by setOAuthTokens and by  *)
(* a successful refresh: every step of a call that changes the stored      *)
(* access token or refresh token is the completion of a successful         *)
(* TokenRefresher exchange, and it stores the token the exchange returned; *)
(* token resolution, overrides, HTTP responses, an aborted or failed       *)
(* refresh, error classification and normalization leave the pair alone.   *)
(***************************************************************************)
C5_OnlySetOrRefreshMutates ==
    [][~StoredUnchanged =>
          \/ UNCHANGED call
          \/ \E c \in Calls :
                /\ RefreshCompletes(c)
                /\ \A d \in Calls \ {c} : call'[d] = call[d]
                /\ Last(call'[c].trace).ev = "refreshed"
                /\ accessToken' = Last(call'[c].trace).token]_vars

\* a refresh has completed and left its tokens in the stored pair
C5_Witness ==
    \E c \in Calls :
        /\ call[c].pc = "refreshed"
        /\ accessToken = "new-access"
        /\ refreshToken = "new-refresh"

(***************************************************************************)
(* C6.  The access token of the first request of a call is the per-call    *)
(* override if present, otherwise the stored access token if present,      *)
(* otherwise the token pulled from CredentialSource, which is consulted    *)
(* only when both are absent; the refresh token of the call is the         *)
(* per-call override if present, otherwise the stored refresh token.       *)
(* "Present" is JavaScript truthiness: an empty string counts as absent.   *)
(***************************************************************************)
Bearer(request) == request.headers[1]

C6_TokenPrecedence ==
    [][\A c \in Calls :
          LET k == call[c]
              n == call'[c]
              o == n.options
          IN  /\ (k.pc \in {"idle", "done"} /\ n.pc \notin {"idle", "done"}) =>
                    IF Truthy(o.accessToken)
                    THEN n.pc = "fetch1" /\ n.accessToken = o.accessToken
                         /\ Count(n.trace, {"getToken"}) = 0
                    ELSE IF Truthy(accessToken)
                    THEN n.pc = "fetch1" /\ n.accessToken = accessToken
                         /\ Count(n.trace, {"getToken"}) = 0
                    ELSE n.pc = "getToken" /\ n.requests = <<>>
              /\ (k.pc = "getToken" /\ n.pc = "fetch1") =>
                    /\ ~Truthy(o.accessToken)
                    /\ EvNames(n.trace) = <<"getToken", "gotToken", "fetch">>
                    /\ n.accessToken = n.trace[2].token
              /\ (k.requests = <<>> /\ n.requests # <<>>) =>
                    /\ Len(n.requests) = 1
                    /\ Bearer(n.requests[1]) = <<"Authorization", "Bearer " \o n.accessToken>>
                    /\ n.refreshToken = (IF Truthy(o.refreshToken) THEN o.refreshToken
                                         ELSE refreshToken)]_vars

\* the first request of a call carries the override although a token is stored
C6_Witness ==
    \E c \in Calls :
        /\ call[c].pc = "fetch1"
        /\ call[c].options.accessToken = "option-access"
        /\ accessToken = "stored-access"
        /\ Bearer(call[c].requests[1]) = <<"Authorization", "Bearer option-access">>

(***************************************************************************)
(* C7.  If the override, the stored access token and CredentialSource all  *)
(* yield no token, the call fails with the no-token error before any       *)
(* network I/O: no HTTP request, no TokenRefresher invocation, the stored  *)
(* pair unchanged, and graphRequest returns an error envelope.             *)
(***************************************************************************)
NoTokenResolved(k) ==
    /\ ~Truthy(k.options.accessToken)
    /\ \E i \in DOMAIN k.trace : k.trace[i].ev = "gotToken" /\ ~Truthy(k.trace[i].token)

C7_NoTokenNoIO ==
    [][\A c \in Calls :
          NoTokenResolved(call'[c]) =>
              /\ FailedWith(call'[c], "No access token available")
              /\ call'[c].settled.value.content[1].text
                    = "{\"error\":\"No access token available\"}"
              /\ call'[c].requests = <<>>
              /\ call'[c].responses = <<>>
              /\ Count(call'[c].trace, {"fetch", "refreshAccessToken", "TokenRefresher"}) = 0
              /\ ~NoTokenResolved(call[c]) => StoredUnchanged]_vars

\* CredentialSource returned nothing to a call without override
C7_Witness ==
    \E c \in Calls :
        /\ call[c].pc = "done"
        /\ NoTokenResolved(call[c])
        /\ call[c].trace[2].token = Null

(***************************************************************************)
(* C8.  A refresh attempted while no client secret is configured aborts    *)
(* at once with the refresh-configuration error: TokenRefresher is not     *)
(* invoked, no retried request is issued, the stored pair is unchanged and *)
(* the call ends as an error envelope.                                     *)
(***************************************************************************)
RefreshAttempted(k) == Count(k.trace, {"refreshAccessToken"}) > 0

C8_NoSecretAbortsRefresh ==
    [][\A c \in Calls :
          (RefreshAttempted(call'[c]) /\ ~Truthy(clientSecret)) =>
              /\ FailedWith(call'[c], "MS365_MCP_CLIENT_SECRET not configured")
              /\ Count(call'[c].trace, {"TokenRefresher", "refreshed"}) = 0
              /\ Len(call'[c].requests) = 1
              /\ ~RefreshAttempted(call[c]) => StoredUnchanged]_vars

\* a call was answered 401, had a refresh token and found no client secret
C8_Witness ==
    \E c \in Calls :
        /\ call[c].pc = "done"
        /\ clientSecret = Null
        /\ Last(call[c].trace).ev = "refreshAccessToken"
        /\ Truthy(call[c].refreshToken)

(***************************************************************************)
(* C9.  Refresh only on demonstrated staleness: every refresh attempt and  *)
(* every TokenRefresher invocation of a call comes right after a 401       *)
(* response to that call's first request; none is started before the first *)
(* request, after a non-401 response, or outside a call.                   *)
(***************************************************************************)
C9_RefreshOnlyAfter401 ==
    \A c \in Calls :
        LET k == call[c] IN
        /\ k.pc = "idle" => k.trace = <<>>
        /\ \A i \in DOMAIN k.trace :
              /\ k.trace[i].ev = "refreshAccessToken" =>
                    /\ i >= 3
                    /\ k.trace[i - 1].ev = "response"
                    /\ k.trace[i - 1].status = 401
                    /\ k.trace[i - 2].ev = "fetch"
                    /\ Count(SubSeq(k.trace, 1, i), {"fetch"}) = 1
                    /\ Count(SubSeq(k.trace, 1, i), {"response"}) = 1
              /\ k.trace[i].ev = "TokenRefresher" =>
                    /\ i >= 4
                    /\ k.trace[i - 1].ev = "refreshAccessToken"
              /\ k.trace[i].ev \in {"refreshed", "refreshFailed"} =>
                    /\ i >= 5
                    /\ k.trace[i - 1].ev = "TokenRefresher"

\* a call is waiting for the token endpoint after its 401
C9_Witness ==
    \E c \in Calls :
        /\ call[c].pc = "refreshing"
        /\ Last(call[c].trace).ev = "TokenRefresher"

(***************************************************************************)
(* Classification of the response r that ended call k: a 403 whose body    *)
(* contains 'scope' or 'permission' fails with the scope error, whose      *)
(* message carries status, status text, body text and the                  *)
(* organization-mode guidance; every other non-2xx response fails with the *)
(* generic API error carrying status, status text and body text; a 2xx     *)
(* response produces no error.                                             *)
(***************************************************************************)
Guidance == "This tool requires organization mode. Please restart with --org-mode flag."

Classified(k, r) ==
    LET generic == "Microsoft Graph API error: " \o DecimalString(r.status)
                   \o " " \o r.statusText \o " - " \o r.body
    IN  IF r.status = 403 /\ (Includes(r.body, "scope") \/ Includes(r.body, "permission"))
        THEN /\ k.outcome.kind = "throw"
             /\ StartsWith(k.outcome.message, "Microsoft Graph API scope error: 403 ")
             /\ Includes(k.outcome.message, r.statusText \o " - " \o r.body)
             /\ Includes(k.outcome.message, Guidance)
             /\ FailedWith(k, k.outcome.message)
             /\ r.body = "Insufficient privileges: scope"
                => k.outcome.message
                     = "Microsoft Graph API scope error: 403 Forbidden - Insufficient privileges: scope. "
                       \o Guidance
        ELSE IF r.status \notin 200..299
        THEN /\ k.outcome = Throw(generic)
             /\ ~Includes(k.outcome.message, "organization mode")
             /\ FailedWith(k, generic)
             /\ r.status = 404 => generic = "Microsoft Graph API error: 404 Not Found - "
        ELSE /\ k.outcome.kind = "return"
             /\ ~IsErrorEnvelope(k.settled.value)

(***************************************************************************)
(* C10.  As claimed: the final response of a call, the retried response if *)
(* a retry happened and the first otherwise, is classified: scope error    *)
(* for a 403 naming a scope or permission, generic API error for every     *)
(* other non-2xx response, no error for a 2xx response.                    *)
(***************************************************************************)
C10_FinalResponseClassified ==
    \A c \in Calls :
        LET k == call[c] IN
        ( /\ k.pc = "done"
          /\ k.responses # <<>>
          /\ Count(k.trace, {"fetchFailed"}) = 0
          /\ Last(k.responses).body # Null )
        => Classified(k, Last(k.responses))

(***************************************************************************)
(* C10, amended.  The response a call ends on is classified as claimed:    *)
(* the retried response if a retry happened, otherwise the first response  *)
(* unless it was a 401 that started a refresh.  (A refresh that aborts or  *)
(* fails ends the call with the refresh error, not with the API error of   *)
(* the 401.)  The body of the response is readable.                        *)
(***************************************************************************)
C10_ErrorClassification ==
    \A c \in Calls :
        LET k == call[c] IN
        ( /\ k.pc = "done"
          /\ k.trace # <<>>
          /\ Last(k.trace).ev = "response"
          /\ Last(k.responses).body # Null )
        => /\ Last(k.responses).status = Last(k.trace).status
           /\ Classified(k, Last(k.responses))

\* a call ended on a 403 whose body speaks of a permission
C10_Witness ==
    \E c \in Calls :
        /\ call[c].pc = "done"
        /\ Last(call[c].trace).ev = "response"
        /\ Last(call[c].responses) = Resp(403, "Forbidden", Null, "no permission")


(***************************************************************************)
(* The formatting path: vocabulary                                         *)
(***************************************************************************)

\* the call ended on a 2xx response, which makeRequest turned into a value
Formatted(k) ==
    /\ k.pc = "done"
    /\ k.outcome.kind = "return"
    /\ k.responses # <<>>
    /\ Ok(Last(k.responses))

\* the text of the response the call ended on, and content[0].text of the
\* envelope
BodyOf(k) == Last(k.responses).body
TextOf(k) == k.settled.value.content[1].text

\* the text is valid JSON
IsJson(text) == text \in JsonTexts

(***************************************************************************)
(* C11                                                                     *)
(***************************************************************************)

\* C11 as stated: for an empty-body 2xx response, with rawResponse not
\* requested, content[0].text is the compact serialization of
\* {message: "OK!"}, without whitespace or indentation.
C11_EmptyBodyCompact ==
    \A c \in Calls :
        Formatted(call[c]) /\ BodyOf(call[c]) = "" /\ ~call[c].options.rawResponse
        => TextOf(call[c]) = "{\"message\":\"OK!\"}"

\* C11 amended: for an empty-body 2xx response, with neither rawResponse nor
\* includeHeaders requested, content[0].text is {message: "OK!"} serialized
\* with an indentation of two spaces; it is the compact serialization exactly
\* when rawResponse is requested.
C11_EmptyBodyText ==
    \A c \in Calls :
        Formatted(call[c]) /\ BodyOf(call[c]) = "" /\ ~call[c].options.includeHeaders
        => TextOf(call[c]) = IF call[c].options.rawResponse
                             THEN "{\"message\":\"OK!\"}"
                             ELSE "{\n  \"message\": \"OK!\"\n}"

C11_Witness ==
    \E c \in Calls :
        /\ Formatted(call[c]) /\ BodyOf(call[c]) = ""
        /\ ~call[c].options.includeHeaders /\ ~call[c].options.rawResponse
        /\ TextOf(call[c]) = "{\n  \"message\": \"OK!\"\n}"

(***************************************************************************)
(* C12                                                                     *)
(***************************************************************************)

\* the value formatJsonResponse serializes: the data field of a value that
\* carries _headers, else the value itself
Payload(v) == IF HasKey(v, "_headers") THEN Get(v, "data") ELSE v

\* no object of x, at any depth, has a key beginning with '@odata.'
RECURSIVE NoODataKey(_)
NoODataKey(x) ==
    CASE x.t = "object" ->
           \A i \in 1..Len(x.members) :
               /\ ~StartsWith(x.members[i][1], "@odata.")
               /\ NoODataKey(x.members[i][2])
      [] x.t = "array" -> \A i \in 1..Len(x.items) : NoODataKey(x.items[i])
      [] OTHER -> TRUE

\* x is v without its '@odata.*' keys: every other key is there, in the
\* order of v, arrays keep their length, and what is not an object or an
\* array is the same
RECURSIVE Stripped(_, _)
Stripped(v, x) ==
    CASE v.t = "object" ->
           LET Other(m) == ~StartsWith(m[1], "@odata.")
               others == SelectSeq(v.members, Other)
           IN  /\ x.t = "object"
               /\ Len(x.members) = Len(others)
               /\ \A i \in 1..Len(others) :
                      /\ x.members[i][1] = others[i][1]
                      /\ Stripped(others[i][2], x.members[i][2])
      [] v.t = "array" ->
           /\ x.t = "array"
           /\ Len(x.items) = Len(v.items)
           /\ \A i \in 1..Len(v.items) : Stripped(v.items[i], x.items[i])
      [] OTHER -> x = v

\* every key of the object begins with '@odata.'
OnlyODataKeys(v) ==
    /\ v.t = "object"
    /\ v.members # <<>>
    /\ \A i \in 1..Len(v.members) : StartsWith(v.members[i][1], "@odata.")

\* C12: with rawResponse off, the text is the two-space serialization of the
\* formatted value without its '@odata.*' keys: no key beginning with
\* '@odata.' is left at any depth, arrays included, every other key and
\* every value that is not an object is kept, and a value whose keys all
\* begin with '@odata.' is serialized as '{}'.
C12_ODataStripped ==
    \A c \in Calls :
        LET k == call[c]
            before == Payload(k.outcome.value)
            after == Payload(k.data)
        IN  Formatted(k) /\ ~k.options.rawResponse /\ before \notin {JNull, JUndefined}
            => /\ TextOf(k) = StringifyPretty(after, "")
               /\ NoODataKey(after)
               /\ ~Includes(TextOf(k), "\"@odata.")
               /\ Stripped(before, after)
               /\ (OnlyODataKeys(before) => TextOf(k) = "{}")

\* an '@odata.*' key inside an object inside an array inside an object is gone,
\* its sibling is kept
C12_Witness ==
    \E c \in Calls :
        /\ Formatted(call[c]) /\ ~call[c].options.rawResponse
        /\ ~call[c].options.includeHeaders
        /\ BodyOf(call[c]) = "{\"@odata.context\":\"ctx\",\"value\":[1,{\"@odata.etag\":\"W/\\\"2\\\"\",\"name\":\"x\"}]}"
        /\ TextOf(call[c]) = "{\n  \"value\": [\n    1,\n    {\n      \"name\": \"x\"\n    }\n  ]\n}"

(***************************************************************************)
(* C13                                                                     *)
(***************************************************************************)

\* C13: a call that ends on a 2xx response whose body was read returns a
\* value, whatever the body: {message: 'OK!'} for the empty text, the parsed
\* value (the value the text is the serialization of) for valid JSON, and
\* {message: 'OK!', rawResponse: text} for any other text.
C13_BodyNormalization ==
    \A c \in Calls :
        LET k == call[c] IN
        k.pc = "done" /\ k.responses # <<>> /\ Ok(Last(k.responses))
        /\ BodyOf(k) # Null /\ Last(k.trace).ev = "response"
        => /\ k.outcome.kind = "return"
           /\ ~k.options.includeHeaders =>
                CASE BodyOf(k) = "" ->
                       k.outcome.value = JObj(<< <<"message", JStr("OK!")>> >>)
                  [] BodyOf(k) # "" /\ IsJson(BodyOf(k)) ->
                       /\ k.outcome.value \in JsonValues
                       /\ Stringify(k.outcome.value) = BodyOf(k)
                  [] OTHER ->
                       k.outcome.value = JObj(<< <<"message", JStr("OK!")>>,
                                                 <<"rawResponse", JStr(BodyOf(k))>> >>)

\* a body that is not JSON came back as the fallback object
C13_Witness ==
    \E c \in Calls :
        /\ Formatted(call[c]) /\ ~call[c].options.includeHeaders
        /\ BodyOf(call[c]) = "not json"
        /\ call[c].outcome.value = JObj(<< <<"message", JStr("OK!")>>,
                                           <<"rawResponse", JStr("not json")>> >>)

(***************************************************************************)
(* C14                                                                     *)
(***************************************************************************)

\* the members of an object other than _etag
SansETag(x) == LET Other(m) == m[1] # "_etag" IN SelectSeq(x.members, Other)

\* C14: on a 2xx response with includeHeaders, the result of makeRequest is
\* the normalized value plus _etag exactly when that value is an object that
\* is not an array; _etag is then the ETag header, or 'no-etag-found' when
\* the response has none, and the other members are those of the value.
\* Arrays, scalars and null are returned as they are, and so is every value
\* without includeHeaders.
C14_ETagAttached ==
    \A c \in Calls :
        LET k == call[c]
            v == NormalizeBody(BodyOf(k))
            r == k.outcome.value
            etag == Last(k.responses).etag
        IN  Formatted(k) =>
              IF k.options.includeHeaders /\ v.t = "object"
              THEN /\ r.t = "object"
                   /\ HasKey(r, "_etag")
                   /\ Get(r, "_etag") = JStr(IF etag = Null THEN "no-etag-found" ELSE etag)
                   /\ SansETag(r) = SansETag(v)
              ELSE r = v

\* an object body with an ETag header, includeHeaders on
C14_Witness ==
    \E c \in Calls :
        /\ Formatted(call[c]) /\ call[c].options.includeHeaders
        /\ BodyOf(call[c]) = "{\"value\":1}"
        /\ Last(call[c].responses).etag = "W/\"1\""
        /\ call[c].outcome.value = JObj(<< <<"value", JNum(1)>>, <<"_etag", JStr("W/\"1\"")>> >>)

(***************************************************************************)
(* C15                                                                     *)
(***************************************************************************)

C16_RetryCarriesNewToken ==
    \A c \in Calls :
        LET k == call[c] IN
        Len(k.requests) = 2
        => /\ k.requests[2].url = k.requests[1].url
           /\ k.requests[2].method = k.requests[1].method
           /\ k.requests[2].body = k.requests[1].body
           /\ Tail(k.requests[2].headers) = Tail(k.requests[1].headers)
           /\ Bearer(k.requests[2]) = <<"Authorization", "Bearer " \o k.exchange.access_token>>

\* a conditional PATCH sent with an override token is retried with the new
\* token
C16_Witness ==
    \E c \in Calls :
        /\ Len(call[c].requests) = 2
        /\ call[c].options.accessToken = "option-access"
        /\ call[c].options.method = "PATCH"
        /\ Bearer(call[c].requests[1]) = <<"Authorization", "Bearer option-access">>
        /\ Bearer(call[c].requests[2]) = <<"Authorization", "Bearer new-access">>
        /\ call[c].requests[2].body = "{\"displayName\":\"x\"}"

(***************************************************************************)
(* C17                                                                     *)
(***************************************************************************)

\* the call sends its second request
Retries(c) == call[c].pc = "refreshed" /\ call'[c].pc = "fetch2"

\* C17: the step that completes a refresh stores the access token the
\* exchange returned, and stores the refresh token of the exchange when it
\* returned one; otherwise the stored refresh token keeps the value it had.
\* The call has sent one request by then: its second request goes out in a
\* later step, which comes after the step that stored the tokens.
C17_RefreshStores ==
    [][\A c \in Calls :
          /\ RefreshCompletes(c) =>
               /\ accessToken' = call'[c].exchange.access_token
               /\ refreshToken' = IF Truthy(call'[c].exchange.refresh_token)
                                  THEN call'[c].exchange.refresh_token
                                  ELSE refreshToken
               /\ Len(call'[c].requests) = 1
          /\ Retries(c) =>
               /\ Last(call[c].trace).ev = "refreshed"
               /\ Len(call[c].requests) = 1 /\ Len(call'[c].requests) = 2]_vars

\* an exchange without a new refresh token has completed: the new access
\* token is stored next to the refresh token that was there
C17_Witness ==
    \E c \in Calls :
        /\ call[c].pc = "refreshed"
        /\ call[c].exchange = [access_token |-> "new-access", refresh_token |-> Null]
        /\ accessToken = "new-access"
        /\ refreshToken = "stored-refresh"

(***************************************************************************)
(* C20                                                                     *)
(***************************************************************************)

\* the exchange of the call rejects
RefreshFails(c) == call[c].pc = "refreshing" /\ call'[c].pc = "done"

\* C20: when the exchange rejects, the call ends in that step: the stored
\* tokens are not written, the call has sent one request and sends no other,
\* and graphRequest returns the error envelope with the message of the
\* exchange.
C20_RefreshFailure ==
    [][\A c \in Calls :
          RefreshFails(c) =>
              /\ StoredUnchanged
              /\ Len(call'[c].requests) = 1
              /\ Count(call'[c].trace, {"fetch"}) = 1
              /\ call'[c].outcome = Throw("Failed to refresh token: 400 Bad Request")
              /\ FailedWith(call'[c], "Failed to refresh token: 400 Bad Request")]_vars

\* a call that used the stored tokens ended on a rejected exchange, and the
\* stored tokens are still there
C20_Witness ==
    \E c \in Calls :
        /\ call[c].pc = "done"
        /\ Last(call[c].trace).ev = "refreshFailed"
        /\ call[c].refreshToken = "stored-refresh"
        /\ accessToken = "stored-access" /\ refreshToken = "stored-refresh"
        /\ FailedWith(call[c], "Failed to refresh token: 400 Bad Request")

(***************************************************************************)
(* C18                                                                     *)
(***************************************************************************)

\* C18 as stated: whatever the interleaving of overlapping calls, the bearer
\* of the second request of a call is the access token the exchange of that
\* same call returned.
C18_RetryCarriesOwnToken ==
    \A c \in Calls :
        Len(call[c].requests) = 2
        => Bearer(call[c].requests[2])
             = <<"Authorization", "Bearer " \o call[c].exchange.access_token>>

(***************************************************************************)
(* C19                                                                     *)
(***************************************************************************)

\* the call sends its first request: lines 48-57 have resolved its tokens
SendsFirst(c) == call[c].pc \in {"idle", "done", "getToken"} /\ call'[c].pc = "fetch1"

\* the first response of the call is in
FirstResponse(c) == call[c].pc = "fetch1" /\ Len(call'[c].responses) = 1

\* C19: every call resolves its refresh token when it sends its first
\* request, the override or else the token stored at that moment, and keeps
\* it while it runs.  Every call whose first response is a 401 and that
\* holds a refresh token starts a refresh of its own in the step that takes
\* the response, whatever the other calls are doing: the exchange is invoked
\* in that step with the refresh token the call holds, whatever is stored by
\* then.  No call starts more than one refresh.
C19_OwnRefreshPerCall ==
    [][\A c \in Calls :
          LET k == call[c]
              k1 == call'[c]
          IN  /\ SendsFirst(c) =>
                   k1.refreshToken = Or(k1.options.refreshToken, refreshToken)
              /\ InFlight(c) /\ k.pc # "getToken" => k1.refreshToken = k.refreshToken
              /\ FirstResponse(c) /\ k1.responses[1].status = 401 /\ Truthy(k.refreshToken)
                 => /\ Count(k1.trace, {"refreshAccessToken"}) = 1
                    /\ Count(k1.trace, {"TokenRefresher"}) = 1
                    /\ k1.pc = "refreshing"
                    /\ Last(k1.trace) = Ev("TokenRefresher", 0, k.refreshToken)
              /\ Count(k1.trace, {"TokenRefresher"}) <= 1
              /\ Count(k1.trace, {"TokenRefresher"}) = 1
                 => /\ k1.responses[1].status = 401
                    /\ Truthy(k1.refreshToken)]_vars

\* a call hands the exchange the refresh token it resolved at its start
\* although the refresh of another call has replaced the stored one since
C19_Witness ==
    \E c, d \in Calls :
        /\ c # d
        /\ call[c].pc = "refreshing"
        /\ Last(call[c].trace) = Ev("TokenRefresher", 0, "stored-refresh")
        /\ call[c].options.refreshToken = Null
        /\ call[d].exchange.refresh_token = "new-refresh"
        /\ refreshToken = "new-refresh"

====
